---- MODULE Spec2Model ----
(***************************************************************************)
(* PPP manager (src/ppp_manager.py): the in-memory cache keyed by name and *)
(* slug, the data file, the deleted-entries file and the menu operations   *)
(* that change them.                                                       *)
(*                                                                         *)
(* Text is a sequence of one-character strings (<<"A", "b">> is "Ab"), so  *)
(* strip(), lower(), number formatting and number parsing are computed.    *)
(* A CSV row is the sequence of its field texts: csv.writer quotes a field *)
(* that holds a comma and csv.reader undoes it, so fields survive a write  *)
(* and a read unchanged, while the number of fields per row and the header *)
(* they are read under are modelled.  ppp is a float in the program; here  *)
(* it is counted in tenths (15 is 1.5), exact for the texts of the model,  *)
(* which carry at most one fractional digit.                               *)
(***************************************************************************)
EXTENDS Integers, Sequences, FiniteSets, TLC

----------------------------------------------------------------------------
(* Text *)

Digits == <<"0", "1", "2", "3", "4", "5", "6", "7", "8", "9">>

DigitSet == {Digits[i] : i \in 1..10}

\* str.lower() on the letters of the model
Lower(c) ==
  CASE c = "A" -> "a"
    [] c = "B" -> "b"
    [] c = "X" -> "x"
    [] OTHER -> c

\* ord(c): the order Python compares strings by
Ord(c) ==
  CASE c = " " -> 32
    [] c = "$" -> 36
    [] c = "," -> 44
    [] c = "." -> 46
    [] c \in DigitSet -> 47 + CHOOSE i \in 1..10 : Digits[i] = c
    [] c = "A" -> 65
    [] c = "B" -> 66
    [] c = "X" -> 88
    [] c = "a" -> 97
    [] c = "b" -> 98
    [] c = "d" -> 100
    [] c = "r" -> 114
    [] c = "x" -> 120

LowerText(s) == [i \in 1..Len(s) |-> Lower(s[i])]

RECURSIVE LStrip(_)
LStrip(s) == IF s # <<>> /\ Head(s) = " " THEN LStrip(Tail(s)) ELSE s

RECURSIVE RStrip(_)
RStrip(s) ==
  IF s # <<>> /\ s[Len(s)] = " " THEN RStrip(SubSeq(s, 1, Len(s) - 1)) ELSE s

\* str.strip()
Strip(s) == RStrip(LStrip(s))

\* _norm: (s or "").strip().lower(); None is the empty text
Norm(s) == LowerText(Strip(s))

\* s < t for Python strings
RECURSIVE TextLess(_, _)
TextLess(s, t) ==
  IF t = <<>> THEN FALSE
  ELSE IF s = <<>> THEN TRUE
  ELSE IF Head(s) # Head(t) THEN Ord(Head(s)) < Ord(Head(t))
  ELSE TextLess(Tail(s), Tail(t))

RECURSIVE Keep(_, _)
Keep(s, chars) ==
  IF s = <<>> THEN <<>>
  ELSE IF Head(s) \in chars THEN <<Head(s)>> \o Keep(Tail(s), chars)
  ELSE Keep(Tail(s), chars)

\* a or b, for texts: the first that is not empty
Or(a, b) == IF a # <<>> THEN a ELSE b

----------------------------------------------------------------------------
(* Numbers *)

DigitVal(c) == (CHOOSE i \in 1..10 : Digits[i] = c) - 1

\* str(n) for n >= 0
RECURSIVE IntText(_)
IntText(n) ==
  IF n < 10 THEN <<Digits[n + 1]>>
  ELSE IntText(n \div 10) \o <<Digits[(n % 10) + 1]>>

Pad3(n) == <<Digits[(n \div 100) + 1], Digits[((n \div 10) % 10) + 1], Digits[(n % 10) + 1]>>

\* f"{n:,}" for n >= 0
RECURSIVE GroupedText(_)
GroupedText(n) ==
  IF n < 1000 THEN IntText(n)
  ELSE GroupedText(n \div 1000) \o <<",">> \o Pad3(n % 1000)

\* int(ppp): the float truncated, ppp in tenths
IntOf(ppp) == ppp \div 10

RECURSIVE DigitsVal(_)
DigitsVal(s) ==
  IF s = <<>> THEN 0 ELSE 10 * DigitsVal(SubSeq(s, 1, Len(s) - 1)) + DigitVal(s[Len(s)])

Dots(s) == {i \in 1..Len(s) : s[i] = "."}

\* the texts float() accepts: digits with at most one point and one digit after it
IsDecimal(s) ==
  /\ s # <<>>
  /\ \A i \in 1..Len(s) : s[i] \in DigitSet \cup {"."}
  /\ Cardinality(Dots(s)) <= 1
  /\ \E i \in 1..Len(s) : s[i] \in DigitSet
  /\ \A i \in Dots(s) : Len(s) - i <= 1

\* float(s) in tenths, for IsDecimal(s)
FloatOf(s) ==
  IF Dots(s) = {} THEN 10 * DigitsVal(s)
  ELSE LET i == CHOOSE j \in Dots(s) : TRUE
       IN 10 * DigitsVal(SubSeq(s, 1, i - 1)) + DigitsVal(SubSeq(s, i + 1, Len(s)))

\* _clean_number, in tenths. The texts of the model hold no "-", "e" or "E".
CleanNumber(text) ==
  LET s == Strip(text)
      fast == Keep(s, DigitSet \cup {"."})   \* "," " " and "$" removed
      slow == Keep(s, DigitSet \cup {"."})   \* every other character removed
  IN IF s # <<>> /\ (\A i \in 1..Len(s) : s[i] \in DigitSet \cup {",", ".", "$", " "})
        /\ IsDecimal(fast)
     THEN FloatOf(fast)
     ELSE IF slow = <<>> THEN 0 ELSE FloatOf(slow)

\* _clean_int: int(float(str(text).strip())), 0 when float() raises
CleanInt(text) ==
  LET s == Strip(text)
  IN IF IsDecimal(s) THEN FloatOf(s) \div 10 ELSE 0

----------------------------------------------------------------------------
(* Entries, the cache and the CSV files *)

\* an entry of the cache; id is the identity of the dict object (v is e)
Entry(id, name, ppp, rank, slug, date, region) ==
  [id |-> id, name |-> name, ppp |-> ppp, rank |-> rank,
   slug |-> slug, date |-> date, region |-> region]

\* what _find returns when nothing matches
None == Entry(-1, <<>>, 0, 0, <<>>, <<>>, <<>>)

CiaFields == <<"name", "slug", "value", "date_of_information", "ranking", "region">>

SimpleFields == <<"country", "ppp", "rank">>

\* h.lower() for the column names a header of the model carries
LowerCol(h) ==
  CASE h = "Name" -> "name"
    [] h = "Slug" -> "slug"
    [] h = "Value" -> "value"
    [] h = "Date_of_information" -> "date_of_information"
    [] h = "Ranking" -> "ranking"
    [] h = "Region" -> "region"
    [] h = "Country" -> "country"
    [] h = "PPP" -> "ppp"
    [] h = "Rank" -> "rank"
    [] OTHER -> h

Range(s) == {s[i] : i \in 1..Len(s)}

\* the six CIA columns are all in the header, in any letter case
CiaLike(header) == Range(CiaFields) \subseteq {LowerCol(h) : h \in Range(header)}

\* a file: absent, or a header row and data rows
NoFile == [exists |-> FALSE, header |-> <<>>, rows |-> <<>>]

File(header, rows) == [exists |-> TRUE, header |-> header, rows |-> rows]

\* csv.DictReader's row.get(col): the field under that column; None (the empty
\* text, which every reader below treats alike) when the column or the field is
\* missing. Fields beyond the header go to the rest key and are never read.
RowGet(header, row, col) ==
  IF \E i \in 1..Len(header) : header[i] = col /\ i <= Len(row)
  THEN row[CHOOSE i \in 1..Len(header) : header[i] = col /\ i <= Len(row)]
  ELSE <<>>

\* The cache is a dict: a sequence of key/value pairs in insertion order.
Keys(cache) == {cache[i].k : i \in 1..Len(cache)}

Values(cache) == [i \in 1..Len(cache) |-> cache[i].v]

Ids(cache) == {cache[i].v.id : i \in 1..Len(cache)}

CacheGet(cache, key) == cache[CHOOSE i \in 1..Len(cache) : cache[i].k = key].v

\* CacheSet as cache.setdefault(key, entry): a key already present keeps its value
CacheSetDefault(cache, key, entry) ==
  IF key \in Keys(cache) THEN cache ELSE Append(cache, [k |-> key, v |-> entry])

\* cache[key] = entry: an existing key keeps its place, a new one goes last
CacheSet(cache, key, entry) ==
  IF key \in Keys(cache)
  THEN [i \in 1..Len(cache) |->
          IF cache[i].k = key THEN [k |-> key, v |-> entry] ELSE cache[i]]
  ELSE Append(cache, [k |-> key, v |-> entry])

RECURSIVE CacheSetAll(_, _, _)
CacheSetAll(cache, keys, entry) ==
  IF keys = <<>> THEN cache
  ELSE CacheSetAll(CacheSet(cache, Head(keys), entry), Tail(keys), entry)

\* a new dict object: an identity no value of the cache has
FreshId(cache) == CHOOSE n \in 1..(Len(cache) + 1) :
  n \notin Ids(cache) /\ \A m \in 1..(n - 1) : m \in Ids(cache)

\* _make_index_keys
MakeIndexKeys(name, slug) ==
  (IF name # <<>> THEN {Norm(name)} ELSE {}) \cup
  (IF slug # <<>> THEN {Norm(slug)} ELSE {})

\* the orders a for loop may visit a set of strings in (hash order)
KeyOrders(S) ==
  {s \in [1..Cardinality(S) -> S] : \A x \in S : \E i \in 1..Cardinality(S) : s[i] = x}

----------------------------------------------------------------------------
(* Loading and saving *)

\* CURRENT_SCHEMA after load_data detects the CIA columns / the simple columns
CiaSchema ==
  [has_slug |-> TRUE, has_date |-> TRUE, has_region |-> TRUE, fieldnames |-> CiaFields]

SimpleSchema ==
  [has_slug |-> FALSE, has_date |-> FALSE, has_region |-> FALSE, fieldnames |-> SimpleFields]

\* load_data, the CIA branch: the caches the rows can leave, one per visiting
\* order of each row's index keys
RECURSIVE LoadCiaRows(_, _, _)
LoadCiaRows(header, rows, cache) ==
  IF rows = <<>> THEN {cache}
  ELSE
    LET row == Head(rows)
        name == Or(RowGet(header, row, "name"), RowGet(header, row, "Name"))
        slug == Or(RowGet(header, row, "slug"), RowGet(header, row, "Slug"))
        value == Or(RowGet(header, row, "value"), RowGet(header, row, "Value"))
        date == Or(RowGet(header, row, "date_of_information"),
                   RowGet(header, row, "Date_of_information"))
        ranking == Or(RowGet(header, row, "ranking"), RowGet(header, row, "Ranking"))
        region == Or(RowGet(header, row, "region"), RowGet(header, row, "Region"))
        entry == Entry(FreshId(cache), Strip(name), CleanNumber(value), CleanInt(ranking),
                       Strip(slug), Strip(date), Strip(region))
    IN UNION {LoadCiaRows(header, Tail(rows), CacheSetAll(cache, keys, entry)) :
                keys \in KeyOrders(MakeIndexKeys(name, slug))}

\* load_data, the simple branch: every row is stored under _norm(name)
RECURSIVE LoadSimpleRows(_, _, _)
LoadSimpleRows(header, rows, cache) ==
  IF rows = <<>> THEN cache
  ELSE
    LET row == Head(rows)
        name == Or(RowGet(header, row, "country"),
                   Or(RowGet(header, row, "Country"), RowGet(header, row, "name")))
        ppp == Or(RowGet(header, row, "ppp"),
                  Or(RowGet(header, row, "PPP"), RowGet(header, row, "value")))
        rank == Or(RowGet(header, row, "rank"),
                   Or(RowGet(header, row, "Rank"), RowGet(header, row, "ranking")))
        entry == Entry(FreshId(cache), Strip(name), CleanNumber(ppp), CleanInt(rank),
                       <<>>, <<>>, <<>>)
    IN LoadSimpleRows(header, Tail(rows), CacheSet(cache, Norm(name), entry))

\* load_data: the caches a file can load as, and the schema it sets. A missing
\* file leaves the schema as the module initialises it.
LoadData(file) ==
  IF ~file.exists THEN [caches |-> {<<>>}, schema |-> SimpleSchema]
  ELSE IF CiaLike(file.header)
  THEN [caches |-> LoadCiaRows(file.header, file.rows, <<>>), schema |-> CiaSchema]
  ELSE [caches |-> {LoadSimpleRows(file.header, file.rows, <<>>)}, schema |-> SimpleSchema]

\* _current_fieldnames
CurrentFieldnames(schema) ==
  IF schema.fieldnames = CiaFields THEN schema.fieldnames ELSE SimpleFields

\* the row DictWriter writes for an entry under the given field names
\* (save_data, append_deleted and rewrite_deleted build it alike)
WriteRow(fieldnames, e) ==
  IF fieldnames = CiaFields
  THEN <<e.name, e.slug,
         IF e.ppp # 0 THEN GroupedText(IntOf(e.ppp)) ELSE <<"0">>,
         e.date, IntText(e.rank), e.region>>
  ELSE <<e.name, IntText(IntOf(e.ppp)), IntText(e.rank)>>

\* save_data's unique: the first value met under each _norm(name) or _norm(slug)
RECURSIVE Unique(_, _, _)
Unique(values, seen, acc) ==
  IF values = <<>> THEN acc
  ELSE
    LET v == Head(values)
        key == Or(Norm(v.name), Norm(v.slug))
    IN IF key # <<>> /\ key \notin seen
       THEN Unique(Tail(values), seen \cup {key}, Append(acc, v))
       ELSE Unique(Tail(values), seen, acc)

\* RankKey as x.get("rank", 0) alone: rank 0 sorts first
RankKeyPlain(rank) == <<0, rank>>

\* x.get("rank", 0) or 10**12, as a pair compared first to last: exact for every
\* rank below 10**12
RankKey(rank) == IF rank = 0 THEN <<1, 0>> ELSE <<0, rank>>

\* the sort key of a precedes the sort key of b
SortKeyLess(a, b) ==
  LET ka == RankKey(a.rank)
      kb == RankKey(b.rank)
  IN \/ ka[1] < kb[1]
     \/ ka[1] = kb[1] /\ ka[2] < kb[2]
     \/ ka = kb /\ TextLess(Norm(a.name), Norm(b.name))

\* sorted(): stable, an element goes after those that do not follow it
RECURSIVE InsertSorted(_, _)
InsertSorted(s, e) ==
  IF s = <<>> THEN <<e>>
  ELSE IF SortKeyLess(e, Head(s)) THEN <<e>> \o s
  ELSE <<Head(s)>> \o InsertSorted(Tail(s), e)

RECURSIVE Sorted(_)
Sorted(s) ==
  IF s = <<>> THEN <<>>
  ELSE InsertSorted(Sorted(SubSeq(s, 1, Len(s) - 1)), s[Len(s)])

\* save_data's rows: the entries it writes, in order
SaveRows(cache) == Sorted(Unique(Values(cache), {}, <<>>))

\* save_data: the file it writes
SaveData(cache, schema) ==
  LET fieldnames == CurrentFieldnames(schema)
      rows == SaveRows(cache)
  IN File(fieldnames, [i \in 1..Len(rows) |-> WriteRow(fieldnames, rows[i])])

\* append_deleted: the header is written only when the file is new
AppendDeleted(file, entry, schema) ==
  LET fieldnames == CurrentFieldnames(schema)
  IN File(IF file.exists THEN file.header ELSE fieldnames,
          Append(file.rows, WriteRow(fieldnames, entry)))

\* load_deleted: the items of the file, read under the file's own header. An
\* item is a dict no cache holds yet (id 0).
LoadDeleted(file) ==
  IF ~file.exists THEN <<>>
  ELSE
    [i \in 1..Len(file.rows) |->
      LET row == file.rows[i]
      IN IF CiaLike(file.header)
         THEN Entry(0, Strip(RowGet(file.header, row, "name")),
                    CleanNumber(RowGet(file.header, row, "value")),
                    CleanInt(RowGet(file.header, row, "ranking")),
                    Strip(RowGet(file.header, row, "slug")),
                    Strip(RowGet(file.header, row, "date_of_information")),
                    Strip(RowGet(file.header, row, "region")))
         ELSE Entry(0, Strip(Or(RowGet(file.header, row, "country"),
                                RowGet(file.header, row, "name"))),
                    CleanNumber(RowGet(file.header, row, "ppp")),
                    CleanInt(RowGet(file.header, row, "rank")),
                    <<>>, <<>>, <<>>)]

\* rewrite_deleted
RewriteDeleted(items, schema) ==
  LET fieldnames == CurrentFieldnames(schema)
  IN File(fieldnames, [i \in 1..Len(items) |-> WriteRow(fieldnames, items[i])])

\* _find: the value under _norm(query), else the first value whose name or slug
\* normalises to it
Find(cache, query) ==
  LET key == Norm(query)
      hits == {i \in 1..Len(cache) :
                 Norm(cache[i].v.name) = key \/ Norm(cache[i].v.slug) = key}
  IN IF key \in Keys(cache) THEN CacheGet(cache, key)
     ELSE IF hits # {} THEN cache[CHOOSE i \in hits : \A j \in hits : i <= j].v
     ELSE None

----------------------------------------------------------------------------
(* State *)

VARIABLES
  cache,           \* main's cache: the dict load_data returned
  CURRENT_SCHEMA,  \* the module's schema record
  dataFile,        \* purchasing_power.csv
  deletedFile,     \* deleted_info.csv
  out              \* what the last operation read and reported

vars == <<cache, CURRENT_SCHEMA, dataFile, deletedFile, out>>

\* the report of an operation: its name, the query it read, the entry it built
\* or found, the names it printed and whether it called save_data; for
\* combined_ppp also the input line split at its commas, the total and the
\* queries it printed as missing
Report(op, q, e, names, saved) ==
  [op |-> op, q |-> q, e |-> e, names |-> names, saved |-> saved,
   line |-> <<>>, total |-> 0, missing |-> <<>>]

----------------------------------------------------------------------------
(* Inputs *)

\* update_country is taken while the cache holds fewer entries than this
MaxEntries == 2

\* the most rows deleted_info.csv holds when delete_entry appends to it
MaxDeleted == 1

\* what the user types at update_country's prompts
NameInputs == {<<>>, <<"A">>, <<" ", "b">>}

SlugInputs == {<<>>, <<"X">>}

PppInputs == {<<"$", "2", ",", "0", "0", "0", ".", "5">>}

RankInputs == {<<"0">>, <<"1">>}

DateInputs == {<<"d">>}

RegionInputs == {<<"r">>}

\* what the user types when asked for a country
QueryInputs == {<<>>, <<"a">>, <<" ", "B">>, <<"x">>}

\* the rows purchasing_power.csv starts with are drawn, in order, from these
SimpleTable ==
  << <<<<"A">>, <<"$", "2", ",", "0", "0", "0", ".", "5">>, <<"2">>>>,
     <<<<>>, <<"1", ".", "5">>, <<"1">>>> >>

CiaTable ==
  << <<<<"A">>, <<"X">>, <<"$", "2", ",", "0", "0", "0", ".", "5">>, <<"d">>, <<"2">>, <<"r">>>>,
     <<<<>>, <<"d">>, <<"1", ".", "5">>, <<"d">>, <<"1">>, <<>>>> >>

\* the rows of table at the indexes of I, in order
RECURSIVE Pick(_, _, _)
Pick(table, I, i) ==
  IF i > Len(table) THEN <<>>
  ELSE (IF i \in I THEN <<table[i]>> ELSE <<>>) \o Pick(table, I, i + 1)

SubTables(table) == {Pick(table, I, 1) : I \in SUBSET (1..Len(table))}

DataFiles ==
  {NoFile}
  \cup {File(SimpleFields, rows) : rows \in SubTables(SimpleTable)}
  \cup {File(CiaFields, rows) : rows \in SubTables(CiaTable)}

\* deleted_info.csv as an earlier run left it: absent, or written by
\* append_deleted and rewrite_deleted under either schema
DeletedFiles ==
  {NoFile}
  \cup {RewriteDeleted(<<>>, SimpleSchema), RewriteDeleted(<<>>, CiaSchema),
        RewriteDeleted(<<Entry(0, <<"A">>, 30, 1, <<>>, <<>>, <<>>)>>, SimpleSchema),
        RewriteDeleted(<<Entry(0, <<"b">>, 20000, 2, <<"X">>, <<"d">>, <<"r">>)>>, CiaSchema)}

----------------------------------------------------------------------------
(* Operations *)

\* main: load_data() before the menu loop
Init ==
  /\ dataFile \in DataFiles
  /\ deletedFile \in DeletedFiles
  /\ cache \in LoadData(dataFile).caches
  /\ CURRENT_SCHEMA = LoadData(dataFile).schema
  /\ out = Report("load", <<>>, None, <<>>, FALSE)

\* update_country
UpdateCountry ==
  \E nameIn \in NameInputs, pppIn \in PppInputs, rankIn \in RankInputs,
     slugIn \in (IF CURRENT_SCHEMA.has_slug THEN SlugInputs ELSE {<<>>}),
     dateIn \in (IF CURRENT_SCHEMA.has_date THEN DateInputs ELSE {<<>>}),
     regionIn \in (IF CURRENT_SCHEMA.has_region THEN RegionInputs ELSE {<<>>}) :
    LET name == Strip(nameIn)
        entry == Entry(FreshId(cache), name, CleanNumber(Strip(pppIn)),
                       CleanInt(Strip(rankIn)), Strip(slugIn), Strip(dateIn),
                       Strip(regionIn))
    IN /\ Cardinality(Ids(cache)) < MaxEntries
       /\ \E keys \in KeyOrders(MakeIndexKeys(name, entry.slug)) :
            cache' = CacheSetAll(cache, keys, entry)
       /\ dataFile' = SaveData(cache', CURRENT_SCHEMA)
       /\ out' = Report("update", <<>>, entry, <<>>, TRUE)
       /\ UNCHANGED <<CURRENT_SCHEMA, deletedFile>>

\* the cache without the keys whose value is e (v is e)
PopAll(c, e) == SelectSeq(c, LAMBDA kv : kv.v.id # e.id)

\* delete_entry
DeleteEntry ==
  \E qIn \in QueryInputs :
    LET q == Strip(qIn)
        e == Find(cache, q)
    IN IF e = None
       THEN /\ out' = Report("delete", q, None, <<>>, FALSE)
            /\ UNCHANGED <<cache, CURRENT_SCHEMA, dataFile, deletedFile>>
       ELSE /\ Len(deletedFile.rows) < MaxDeleted
            /\ cache' = PopAll(cache, e)
            /\ deletedFile' = AppendDeleted(deletedFile, e, CURRENT_SCHEMA)
            /\ dataFile' = SaveData(cache', CURRENT_SCHEMA)
            /\ out' = Report("delete", q, e, <<>>, TRUE)
            /\ UNCHANGED CURRENT_SCHEMA

\* merge_deleted_back's loop: the outcomes over the items left, one per visiting
\* order of each restored item's index keys
RECURSIVE MergeLoop(_, _, _, _)
MergeLoop(items, c, restored, keep) ==
  IF items = <<>> THEN {[cache |-> c, restored |-> restored, keep |-> keep]}
  ELSE
    LET e == Head(items)
    IN IF Find(c, e.name) # None \/ (e.slug # <<>> /\ Find(c, e.slug) # None)
       THEN MergeLoop(Tail(items), c, restored, Append(keep, e))
       ELSE LET new == [e EXCEPT !.id = FreshId(c)]
            IN UNION {MergeLoop(Tail(items), CacheSetAll(c, keys, new),
                                Append(restored, e.name), keep) :
                        keys \in KeyOrders(MakeIndexKeys(e.name, e.slug))}

\* merge_deleted_back
MergeDeletedBack ==
  LET items == LoadDeleted(deletedFile)
  IN IF items = <<>>
     THEN /\ out' = Report("merge", <<>>, None, <<>>, FALSE)
          /\ UNCHANGED <<cache, CURRENT_SCHEMA, dataFile, deletedFile>>
     ELSE \E r \in MergeLoop(items, cache, <<>>, <<>>) :
            /\ cache' = r.cache
            /\ dataFile' = SaveData(cache', CURRENT_SCHEMA)
            /\ deletedFile' = RewriteDeleted(r.keep, CURRENT_SCHEMA)
            /\ out' = Report("merge", <<>>, None, r.restored, TRUE)
            /\ UNCHANGED CURRENT_SCHEMA

Next == UpdateCountry \/ DeleteEntry \/ MergeDeletedBack

Spec == Init /\ [][Next]_vars

----------------------------------------------------------------------------
(* combined_ppp *)

\* the most comma-separated parts of the line combined_ppp reads
MaxQueries == 3

\* the parts of the line: blank, in another letter case, padded, a slug, unknown
QueryParts == {<<>>, <<" ">>, <<"a">>, <<" ", "B">>, <<"x">>}

Lines == UNION {[1..n -> QueryParts] : n \in 0..MaxQueries}

\* CombinedLoop as a loop that collects the query typed, not the name found
RECURSIVE CombinedLoopQuery(_, _, _, _, _)
CombinedLoopQuery(names, c, total, picked, missing) ==
  IF names = <<>> THEN [total |-> total, picked |-> picked, missing |-> missing]
  ELSE
    LET q == Strip(Head(names))
        e == Find(c, q)
    IN IF q = <<>> THEN CombinedLoopQuery(Tail(names), c, total, picked, missing)
       ELSE IF e # None
       THEN CombinedLoopQuery(Tail(names), c, total + e.ppp, Append(picked, q), missing)
       ELSE CombinedLoopQuery(Tail(names), c, total, picked, Append(missing, q))

\* combined_ppp's loop over the parts of the line
RECURSIVE CombinedLoop(_, _, _, _, _)
CombinedLoop(names, c, total, picked, missing) ==
  IF names = <<>> THEN [total |-> total, picked |-> picked, missing |-> missing]
  ELSE
    LET q == Strip(Head(names))
        e == Find(c, q)
    IN IF q = <<>> THEN CombinedLoop(Tail(names), c, total, picked, missing)
       ELSE IF e # None
       THEN CombinedLoop(Tail(names), c, total + e.ppp, Append(picked, e.name), missing)
       ELSE CombinedLoop(Tail(names), c, total, picked, Append(missing, q))

\* combined_ppp
CombinedPpp ==
  \E line \in Lines :
    LET r == CombinedLoop(line, cache, 0, <<>>, <<>>)
    IN /\ out' = [Report("combined", <<>>, None, r.picked, FALSE) EXCEPT
                    !.line = line, !.total = r.total, !.missing = r.missing]
       /\ UNCHANGED <<cache, CURRENT_SCHEMA, dataFile, deletedFile>>

\* one more row for each table, for the runs that only load
WideSimpleTable ==
  SimpleTable \o << <<<<" ", "b">>, <<"7">>, <<"0">>>>, <<<<"a">>, <<"3">>, <<"1">>>> >>

WideCiaTable ==
  CiaTable \o << <<<<" ", "b">>, <<"b">>, <<"7">>, <<>>, <<"0">>, <<"r">>>>,
                 <<<<>>, <<"x", " ">>, <<"4">>, <<>>, <<"1">>, <<>>>> >>

WideFiles ==
  {NoFile}
  \cup {File(h, rows) : h \in {SimpleFields, <<"Country", "PPP", "Rank">>},
                        rows \in SubTables(WideSimpleTable)}
  \cup {File(h, rows) :
          h \in {CiaFields,
                 <<"Name", "Slug", "Value", "Date_of_information", "Ranking", "Region">>},
          rows \in SubTables(WideCiaTable)}

InitLoaded ==
  /\ dataFile \in WideFiles
  /\ deletedFile = NoFile
  /\ cache \in LoadData(dataFile).caches
  /\ CURRENT_SCHEMA = LoadData(dataFile).schema
  /\ out = Report("load", <<>>, None, <<>>, FALSE)

\* the menu with only option 2 chosen
SpecUpdate == InitLoaded /\ [][UpdateCountry]_vars

\* option 4 as the first choice of a run
FirstCombined == out.op = "load" /\ CombinedPpp

SpecCombined == InitLoaded /\ [][FirstCombined]_vars

----------------------------------------------------------------------------
(* Loading, saving unchanged, loading again *)

\* save_data(cache) on the cache as loaded
SaveUnchanged ==
  /\ out.op = "load"
  /\ dataFile' = SaveData(cache, CURRENT_SCHEMA)
  /\ out' = Report("save", <<>>, None, <<>>, TRUE)
  /\ UNCHANGED <<cache, CURRENT_SCHEMA, deletedFile>>

\* the next run's load_data() of the file just saved
Reload ==
  /\ out.op = "save"
  /\ cache' \in LoadData(dataFile).caches
  /\ CURRENT_SCHEMA' = LoadData(dataFile).schema
  /\ out' = Report("reload", <<>>, None, <<>>, FALSE)
  /\ UNCHANGED <<dataFile, deletedFile>>

NextRoundTrip == SaveUnchanged \/ Reload

SpecRoundTrip == InitLoaded /\ [][NextRoundTrip]_vars

----------------------------------------------------------------------------
(* Properties *)

\* a and b agree on every field (they may be different dict objects)
SameFields(a, b) == [a EXCEPT !.id = 0] = [b EXCEPT !.id = 0]

\* e with its ppp truncated to an integer
Truncated(e) == [e EXCEPT !.ppp = 10 * IntOf(e.ppp)]

\* a and b agree on the fields both file layouts carry
SameRow(a, b) == a.name = b.name /\ a.rank = b.rank /\ IntOf(a.ppp) = IntOf(b.ppp)

Upper(c) ==
  CASE c = "a" -> "A"
    [] c = "b" -> "B"
    [] c = "x" -> "X"
    [] OTHER -> c

UpperText(s) == [i \in 1..Len(s) |-> Upper(s[i])]

\* a text as a user may type it: in any letter case, padded with blanks
Variants(s) ==
  {s, LowerText(s), UpperText(s), <<" ">> \o s, s \o <<" ">>,
   <<" ">> \o UpperText(s) \o <<" ">>}

\* key is in the cache and its value is the object v
Under(c, key, v) == key \in Keys(c) /\ CacheGet(c, key).id = v.id

\* C1: every entry that is the value of some key of the cache is the value of
\* the key _norm(name) (when it has a name) and, when it has a slug, of the key
\* _norm(slug).
C1_EveryEntryUnderItsKeys ==
  \A i \in 1..Len(cache) :
    LET v == cache[i].v
    IN /\ v.name # <<>> => Under(cache, Norm(v.name), v)
       /\ v.slug # <<>> => Under(cache, Norm(v.slug), v)

\* C2: after delete_entry removed an entry that has a name and a slug, _find
\* with its name returns nothing and _find with its slug returns nothing.
C2_DeletedNameAndSlugUnresolved ==
  (out.op = "delete" /\ out.e # None /\ out.e.name # <<>> /\ out.e.slug # <<>>)
    => Find(cache, out.e.name) = None /\ Find(cache, out.e.slug) = None

\* C3: delete_entry followed at once by merge_deleted_back leaves an entry,
\* found by the same name and slug, with the deleted entry's fields and its ppp
\* truncated, and the deleted file without that entry.
C3_DeleteThenRestore ==
  [][(out.op = "delete" /\ out.e # None /\ out'.op = "merge") =>
       LET d == out.e
           r == Find(cache', d.name)
           left == LoadDeleted(deletedFile')
       IN /\ r # None
          /\ SameFields(r, Truncated(d))
          /\ d.slug # <<>> => Find(cache', d.slug) = r
          /\ \A i \in 1..Len(left) : ~SameFields(left[i], Truncated(d))]_vars

\* the item has the normalized name, or the normalized slug, of a live entry
LiveDuplicate(c, e) ==
  \E i \in 1..Len(c) :
    \/ e.name # <<>> /\ Norm(c[i].v.name) = Norm(e.name)
    \/ e.slug # <<>> /\ Norm(c[i].v.slug) = Norm(e.slug)

\* C4: merge_deleted_back leaves a live entry that an archived item duplicates
\* as it was (the same object under _find), and leaves the item in the deleted
\* file with its fields unchanged.
C4_DuplicateKeptLiveKept ==
  [][(out'.op = "merge" /\ out'.saved) =>
       LET items == LoadDeleted(deletedFile)
           left == LoadDeleted(deletedFile')
       IN \A i \in 1..Len(items) :
            LiveDuplicate(cache, items[i]) =>
              /\ Find(cache', items[i].name) = Find(cache, items[i].name)
              /\ Find(cache', items[i].slug) = Find(cache, items[i].slug)
              /\ \E j \in 1..Len(left) : left[j] = items[i]]_vars

\* the (name, rank, ppp) triples of the entries of a cache
Triples(c) == {<<c[i].v.name, c[i].v.rank, c[i].v.ppp>> : i \in 1..Len(c)}

\* C5: loading the file saved from an unchanged cache gives the entries of the
\* first load, name and rank identical and ppp truncated, none missing.
C5_RoundTrip ==
  [][out'.op = "reload" =>
       Triples(cache') = {<<t[1], t[2], 10 * IntOf(t[3])>> : t \in Triples(cache)}]_vars

\* C6: after update_country with a name and a slug, _find with the name and
\* _find with the slug, in any letter case and padded with blanks, both return
\* the entry just added, the same object.
C6_FindAfterUpdate ==
  (out.op = "update" /\ out.e.name # <<>> /\ out.e.slug # <<>>) =>
    \A q \in Variants(out.e.name) \cup Variants(out.e.slug) : Find(cache, q) = out.e

\* the update took a key from another entry, which is still live and carries
\* the same name or the same slug
C6_Witness ==
  /\ out.op = "update" /\ out.e.name # <<>> /\ out.e.slug # <<>>
  /\ \E i \in 1..Len(cache) :
       /\ cache[i].v.id # out.e.id
       /\ \/ Norm(cache[i].v.name) = Norm(out.e.name)
          \/ Norm(cache[i].v.slug) = Norm(out.e.slug)

RECURSIVE SumPpp(_, _)
SumPpp(c, qs) == IF qs = <<>> THEN 0 ELSE Find(c, Head(qs)).ppp + SumPpp(c, Tail(qs))

\* what combined_total returns for the queries qs on the cache c
TotalOf(c, qs, r) ==
  LET hits == SelectSeq(qs, LAMBDA q : Find(c, q) # None)
      misses == SelectSeq(qs, LAMBDA q : Find(c, q) = None)
  IN /\ r.total = SumPpp(c, hits)
     /\ r.names = [i \in 1..Len(hits) |-> Find(c, hits[i]).name]
     /\ r.missing = misses
     /\ hits = <<>> => r.total = 0 /\ r.names = <<>>

\* the parts of the line that are not blank, trimmed
Trimmed(line) ==
  SelectSeq([i \in 1..Len(line) |-> Strip(line[i])], LAMBDA q : q # <<>>)

\* C7, as stated: the total, the names found and the queries missing are those
\* of every query of the line as typed, and the cache is left unchanged.
C7_CombinedTotalLiteral ==
  [][out'.op = "combined" =>
       /\ TotalOf(cache, out'.line, out')
       /\ UNCHANGED <<cache, CURRENT_SCHEMA, dataFile, deletedFile>>]_vars

\* C7, amended: the total is the sum of ppp over the trimmed non-blank queries
\* _find resolves, the names found and the trimmed queries missing are in query
\* order, and the cache and the files are left unchanged.
C7_CombinedTotalTrimmed ==
  [][out'.op = "combined" =>
       /\ TotalOf(cache, Trimmed(out'.line), out')
       /\ UNCHANGED <<cache, CURRENT_SCHEMA, dataFile, deletedFile>>]_vars

\* a line with a query found, a query missing and a blank part
C7_Witness ==
  /\ out.op = "combined" /\ out.names # <<>> /\ out.missing # <<>>
  /\ \E i \in 1..Len(out.line) : Strip(out.line[i]) = <<>>

\* the rows of purchasing_power.csv as name, slug and rank
FileRows ==
  [i \in 1..Len(dataFile.rows) |->
    LET row == dataFile.rows[i]
    IN [name |-> Or(RowGet(dataFile.header, row, "name"),
                    RowGet(dataFile.header, row, "country")),
        slug |-> RowGet(dataFile.header, row, "slug"),
        rank |-> CleanInt(Or(RowGet(dataFile.header, row, "ranking"),
                             RowGet(dataFile.header, row, "rank")))]]

\* C8: the rows save_data wrote hold one row per normalized name (per normalized
\* slug among rows without a name), by rank ascending with rank 0 after every
\* other rank, rows of equal rank by normalized name ascending.
C8_SavedRowsUniqueAndSorted ==
  out.saved =>
    \A i, j \in 1..Len(FileRows) :
      LET a == FileRows[i]
          b == FileRows[j]
      IN i < j =>
           /\ Or(Norm(a.name), Norm(a.slug)) # Or(Norm(b.name), Norm(b.slug))
           /\ a.rank = 0 => b.rank = 0
           /\ (a.rank # 0 /\ b.rank # 0) => a.rank <= b.rank
           /\ a.rank = b.rank => ~TextLess(Norm(b.name), Norm(a.name))

\* a save wrote an unranked row after a ranked row whose name follows its own
C8_Witness ==
  /\ out.saved
  /\ \E i, j \in 1..Len(FileRows) :
       /\ i < j /\ FileRows[i].rank # 0 /\ FileRows[j].rank = 0
       /\ TextLess(Norm(FileRows[j].name), Norm(FileRows[i].name))

\* C9: every item merge_deleted_back read from the deleted file is afterwards the
\* value of a key of the cache or a row of the rewritten file, and every name it
\* reports as restored is the name of an entry of the cache.
C9_RestoreLosesNothing ==
  [][(out'.op = "merge" /\ out'.saved) =>
       LET items == LoadDeleted(deletedFile)
           left == LoadDeleted(deletedFile')
       IN /\ \A i \in 1..Len(items) :
               \/ \E j \in 1..Len(cache') : SameFields(cache'[j].v, items[i])
               \/ \E j \in 1..Len(left) : SameRow(left[j], items[i])
          /\ \A i \in 1..Len(out'.names) :
               \E j \in 1..Len(cache') : cache'[j].v.name = out'.names[i]]_vars

\* C10: every data row of deleted_info.csv has the columns of the file's header.
C10_DeletedRowsMatchHeader ==
  deletedFile.exists =>
    \A i \in 1..Len(deletedFile.rows) : Len(deletedFile.rows[i]) = Len(deletedFile.header)

====
